---- MODULE Spec2Model ----
(***************************************************************************)
(* ngicks/flextime: the optional-string expander (EnumerateOptionalString) *)
(* and the time-token translator (ReplaceTimeToken).                       *)
(*                                                                         *)
(* A Go string is a sequence of one-character strings.  The grammar is     *)
(* built from goparsec combinators; their behaviour is written out here:   *)
(* parsec.Atom and parsec.Token skip leading whitespace before matching,   *)
(* ast.And fails as a whole and rewinds, ast.OrdChoice returns the node of *)
(* the first alternative that matches (no node of its own), ast.Many needs *)
(* one match, ast.Kleene accepts none, and a non-terminal's GetValue is    *)
(* the concatenation of its children's values.                             *)
(***************************************************************************)
EXTENDS Integers, Sequences, FiniteSets, Bags, TLC

VARIABLES
    pkg,          \* which EnumerateOptionalString runs: "flextime" or "optionalstring"
    input,        \* optionalString, the template
    pc,           \* position inside EnumerateOptionalString
    node,         \* parsec.Queryable returned by ast.Parsewith
    root,         \* *treeNode filled by decode
    f,            \* []rawString returned by root.Flatten()
    enumerated,   \* the returned list, as a bag of renderings (order is unspecified)
    err,          \* the returned error
    format,       \* the argument of ReplaceTimeToken
    rest,         \* ReplaceTimeToken's input, cut down by every nextChunk
    output,       \* ReplaceTimeToken's output so far, and at the end its result
    ferr,         \* the *FormatError ReplaceTimeToken returns
    tpc,          \* position inside ReplaceTimeToken
    raw,          \* the argument of ReplaceTimeTokenRaw, a RawString
    rawIdx,       \* the index of the value the range loop is at
    rawOutput,    \* ReplaceTimeTokenRaw's output so far, and at the end its result
    rawErr,       \* the error ReplaceTimeTokenRaw returns
    rpc           \* position inside ReplaceTimeTokenRaw

\* ------------------------------------------------------------------ bounds

\* Longest template over the whole alphabet.
MaxLen == 5
\* Longest template over square brackets and either two letters or a letter and a blank.
MaxBracketLen == 7
\* Longest template and longest format over a quote, a backslash and a letter.
MaxQuoteLen == 6

\* ------------------------------------------------------------------ strings

RECURSIVE Concat(_)
\* Concatenation of a sequence of strings.
Concat(ss) == IF ss = <<>> THEN <<>> ELSE Head(ss) \o Concat(Tail(ss))

IsPrefix(p, s) == Len(p) <= Len(s) /\ SubSeq(s, 1, Len(p)) = p

\* Strings of length 0..n over the characters cs.
StringsUpTo(cs, n) == UNION {[1..k -> cs] : k \in 0..n}

\* ------------------------------------------------------------------ goparsec

\* SimpleScanner's default whitespace pattern `^[ \t\r\n]+`.
WSChars == {" ", "\t", "\r", "\n"}

RECURSIVE SkipWS(_, _)
SkipWS(s, i) == IF i <= Len(s) /\ s[i] \in WSChars THEN SkipWS(s, i + 1) ELSE i

Terminal(name, value) == [name |-> name, term |-> TRUE, value |-> value, children |-> <<>>]
NonTerminal(name, children) == [name |-> name, term |-> FALSE, value |-> <<>>, children |-> children]

NoMatch(i) == [ok |-> FALSE, node |-> Terminal("", <<>>), pos |-> i]
Match(n, i) == [ok |-> TRUE, node |-> n, pos |-> i]

RECURSIVE GetValue(_)
GetValue(n) ==
    IF n.term THEN n.value
    ELSE Concat([k \in 1..Len(n.children) |-> GetValue(n.children[k])])

\* parsec.Atom(match, name) for a one-character match.
Atom(match, name, s, i) ==
    LET j == SkipWS(s, i)
    IN  IF j <= Len(s) /\ s[j] = match THEN Match(Terminal(name, <<match>>), j + 1)
        ELSE NoMatch(i)

opensqr(s, i) == Atom("[", "OPENSQR", s, i)
closesqr(s, i) == Atom("]", "CLOSESQR", s, i)
squote(s, i) == Atom("'", "SQUOTE", s, i)

\* parsec.Token(`\\.`, ESCAPEDCHAR): a backslash and any character but newline.
escapedchar(s, i) ==
    LET j == SkipWS(s, i)
    IN  IF j + 1 <= Len(s) /\ s[j] = "\\" /\ s[j + 1] # "\n"
        THEN Match(Terminal("ESCAPEDCHAR", SubSeq(s, j, j + 1)), j + 2)
        ELSE NoMatch(i)

SpecialChars == {"[", "]", "\\", "'"}

RECURSIVE RunEnd(_, _)
\* First position at or after j that holds a special character (or Len(s)+1).
RunEnd(s, j) == IF j <= Len(s) /\ s[j] \notin SpecialChars THEN RunEnd(s, j + 1) ELSE j

\* parsec.Token(`[^\[\]\\']+`, NORMALCHARS)
normalchars(s, i) ==
    LET j == SkipWS(s, i)
        k == RunEnd(s, j)
    IN  IF k > j THEN Match(Terminal("NORMALCHARS", SubSeq(s, j, k - 1)), k)
        ELSE NoMatch(i)

\* ------------------------------------------------------------------ grammar

\* char := ast.OrdChoice(CHAR, nil, escapedchar, normalchars)
char(s, i) ==
    LET e == escapedchar(s, i) IN IF e.ok THEN e ELSE normalchars(s, i)

RECURSIVE ManyChar(_, _, _)
ManyChar(s, i, acc) ==
    LET r == char(s, i)
    IN  IF r.ok THEN ManyChar(s, r.pos, Append(acc, r.node))
        ELSE [children |-> acc, pos |-> i]

\* chars := ast.Many(CHARS, nil, char)
chars(s, i) ==
    LET m == ManyChar(s, i, <<>>)
    IN  IF m.children = <<>> THEN NoMatch(i)
        ELSE Match(NonTerminal("CHARS", m.children), m.pos)

\* charWithinEscape := ast.OrdChoice(CHARWITHINESCAPE, nil, escapedchar, normalchars, opensqr, closesqr)
charWithinEscape(s, i) ==
    LET e == escapedchar(s, i)
        n == normalchars(s, i)
        o == opensqr(s, i)
    IN  IF e.ok THEN e ELSE IF n.ok THEN n ELSE IF o.ok THEN o ELSE closesqr(s, i)

RECURSIVE ManyCharWithinEscape(_, _, _)
ManyCharWithinEscape(s, i, acc) ==
    LET r == charWithinEscape(s, i)
    IN  IF r.ok THEN ManyCharWithinEscape(s, r.pos, Append(acc, r.node))
        ELSE [children |-> acc, pos |-> i]

\* charsWithinEscape := ast.Many(CHARSWITHINESCAPE, nil, charWithinEscape)
charsWithinEscape(s, i) ==
    LET m == ManyCharWithinEscape(s, i, <<>>)
    IN  IF m.children = <<>> THEN NoMatch(i)
        ELSE Match(NonTerminal("CHARSWITHINESCAPE", m.children), m.pos)

\* escaped := ast.And(ESCAPED, nil, squote, charsWithinEscape, squote)
escaped(s, i) ==
    LET q1 == squote(s, i)
        cs == charsWithinEscape(s, q1.pos)
        q2 == squote(s, cs.pos)
    IN  IF q1.ok /\ cs.ok /\ q2.ok
        THEN Match(NonTerminal("ESCAPED", <<q1.node, cs.node, q2.node>>), q2.pos)
        ELSE NoMatch(i)

RECURSIVE optional(_, _)
RECURSIVE item(_, _)
RECURSIVE KleeneItem(_, _, _)
RECURSIVE items(_, _)

\* item := ast.OrdChoice(ITEM, nil, chars, escaped, &optional)
\* ast.OrdChoice over the results c of chars and e of escaped: the first that matched.
ItemChoice(s, i, c, e) == IF c.ok THEN c ELSE IF e.ok THEN e ELSE optional(s, i)

item(s, i) == ItemChoice(s, i, chars(s, i), escaped(s, i))

\* ast.Kleene with the result r of item at i: repeat while item matches.
KleeneItemStep(s, i, acc, r) ==
    IF r.ok THEN KleeneItem(s, r.pos, Append(acc, r.node))
    ELSE [children |-> acc, pos |-> i]

KleeneItem(s, i, acc) == KleeneItemStep(s, i, acc, item(s, i))

\* items := ast.Kleene(ITEMS, nil, item)
ItemsNode(m) == Match(NonTerminal("ITEMS", m.children), m.pos)

items(s, i) == ItemsNode(KleeneItem(s, i, <<>>))

\* optional = ast.And(OPTIONAL, nil, opensqr, items, closesqr)
\* ast.And: every part must match, or the whole fails and the scanner stays at i.
OptionalClose(i, o, its, c) ==
    IF c.ok THEN Match(NonTerminal("OPTIONAL", <<o.node, its.node, c.node>>), c.pos)
    ELSE NoMatch(i)

OptionalItems(s, i, o, its) == OptionalClose(i, o, its, closesqr(s, its.pos))

OptionalOpen(s, i, o) ==
    IF o.ok THEN OptionalItems(s, i, o, items(s, o.pos)) ELSE NoMatch(i)

optional(s, i) == OptionalOpen(s, i, opensqr(s, i))

\* The alternative the top-level Kleene repeats: in package flextime
\* ast.OrdChoice("items", nil, optional, chars), in package optionalstring
\* ast.OrdChoice("items", nil, optional, item).
TopChoice(p, s, i) ==
    LET o == optional(s, i)
    IN  IF o.ok THEN o ELSE IF p = "flextime" THEN chars(s, i) ELSE item(s, i)

RECURSIVE KleeneTop(_, _, _, _)
KleeneTop(p, s, i, acc) ==
    LET r == TopChoice(p, s, i)
    IN  IF r.ok THEN KleeneTop(p, s, r.pos, Append(acc, r.node))
        ELSE [children |-> acc, pos |-> i]

\* ast.Parsewith(MakeOptionalStringParser(ast), scanner): the OPTIONALSTRING node.
MakeOptionalStringParser(p, s) ==
    NonTerminal("OPTIONALSTRING", KleeneTop(p, s, 1, <<>>).children)

\* ------------------------------------------------------------------ treeNode

\* value{typ, value}; typ is normal or singleQuoteEscaped (slashEscaped is never assigned).
Value(v, typ) == [typ |-> typ, value |-> v]

\* &treeNode{}: left and right are nil (the empty tuple), typ is text.
NewTreeNode == [left |-> <<>>, right |-> <<>>, value |-> <<>>, typ |-> "text"]

AddValue(n, v, typ) == [n EXCEPT !.value = Append(@, Value(v, typ))]
SetAsOptional(n) == [n EXCEPT !.typ = "optional"]
IsOptional(n) == n.typ = "optional"
HasLeft(n) == n.left # <<>>
HasRight(n) == n.right # <<>>
\* Left() and Right() create the node when it is nil.
Left(n) == IF HasLeft(n) THEN n.left[1] ELSE NewTreeNode
Right(n) == IF HasRight(n) THEN n.right[1] ELSE NewTreeNode

\* rawString.String(): the values concatenated, escape markers included.
String(rs) == Concat([k \in 1..Len(rs) |-> rs[k].value])

\* The CHARS case of recursiveDecode: one value per child.
RECURSIVE AddChars(_, _, _)
AddChars(ctx, cs, k) ==
    IF k > Len(cs) THEN ctx
    ELSE AddChars(AddValue(ctx, cs[k].value,
                           IF cs[k].name = "NORMALCHARS" THEN "normal" ELSE "singleQuoteEscaped"),
                  cs, k + 1)

RECURSIVE recursiveDecode(_, _)
RECURSIVE DecodeLoop(_, _, _, _)

\* A plausible slip: the `if onceFound` at the head of the loop is left out, so
\* that what follows the first optional group is decoded into the same node and
\* a second group into an optional right node.
DecodeLoopWithoutRight(nodes, i, onceFound, ctx) ==
    IF i > Len(nodes) THEN ctx
    ELSE CASE nodes[i].name = "OPTIONAL" /\ ~onceFound ->
                DecodeLoop(nodes, i + 1, TRUE,
                    [ctx EXCEPT !.left =
                        <<recursiveDecode(nodes[i].children, SetAsOptional(Left(ctx)))>>])
           [] nodes[i].name = "OPTIONAL" /\ onceFound ->
                DecodeLoop(nodes, i + 1, TRUE,
                    [ctx EXCEPT !.right =
                        <<recursiveDecode(nodes[i].children, SetAsOptional(Right(ctx)))>>])
           [] nodes[i].name = "CHARS" ->
                DecodeLoop(nodes, i + 1, onceFound, AddChars(ctx, nodes[i].children, 1))
           [] nodes[i].name = "ESCAPED" ->
                DecodeLoop(nodes, i + 1, onceFound,
                    AddValue(ctx, GetValue(nodes[i]), "singleQuoteEscaped"))
           [] nodes[i].name = "ITEMS" ->
                DecodeLoop(nodes, i + 1, onceFound, recursiveDecode(nodes[i].children, ctx))
           [] OTHER -> DecodeLoop(nodes, i + 1, onceFound, ctx)

\* The loop of recursiveDecode at index i (1-based) with the local onceFound.
\* An OPTIONALSTRING node is never among the children decode passes in.
DecodeLoop(nodes, i, onceFound, ctx) ==
    IF i > Len(nodes) THEN ctx
    ELSE IF onceFound
    THEN [ctx EXCEPT !.right = <<recursiveDecode(SubSeq(nodes, i, Len(nodes)), Right(ctx))>>]
    ELSE CASE nodes[i].name = "OPTIONAL" ->
                DecodeLoop(nodes, i + 1, TRUE,
                    [ctx EXCEPT !.left =
                        <<recursiveDecode(nodes[i].children, SetAsOptional(Left(ctx)))>>])
           [] nodes[i].name = "CHARS" ->
                DecodeLoop(nodes, i + 1, FALSE, AddChars(ctx, nodes[i].children, 1))
           [] nodes[i].name = "ESCAPED" ->
                DecodeLoop(nodes, i + 1, FALSE,
                    AddValue(ctx, GetValue(nodes[i]), "singleQuoteEscaped"))
           [] nodes[i].name = "ITEMS" ->
                DecodeLoop(nodes, i + 1, FALSE, recursiveDecode(nodes[i].children, ctx))
           [] OTHER -> DecodeLoop(nodes, i + 1, FALSE, ctx)

recursiveDecode(nodes, ctx) == DecodeLoop(nodes, 1, FALSE, ctx)

\* decode(node, root) with root = &treeNode{}
decode(n) == recursiveDecode(n.children, NewTreeNode)

\* ------------------------------------------------------------------ Flatten

\* for _, rws := range r { for _, oo := range org { append(oo ++ rws) } }
Product(org, r) ==
    [k \in 1..(Len(r) * Len(org)) |->
        org[((k - 1) % Len(org)) + 1] \o r[((k - 1) \div Len(org)) + 1]]

\* A plausible slip in the loop below: the child's sequences are taken without cur.
AppendEachWithoutCur(cur, fl) == fl

\* for _, s := range n.Left().Flatten() { total = append(total, cur.Clone().Append(s)) }
AppendEach(cur, fl) == [k \in 1..Len(fl) |-> cur \o fl[k]]

RECURSIVE Flatten(_)
Flatten(n) ==
    LET cur == n.value
        own == IF Len(cur) > 0 THEN <<cur>> ELSE <<>>
        fl == IF HasLeft(n) THEN Flatten(Left(n)) ELSE <<>>
        withLeft == own \o AppendEach(cur, fl)
        r == IF HasRight(n) THEN Flatten(Right(n)) ELSE <<>>
        hasNonEmpty == \E k \in 1..Len(r) : String(r[k]) # <<>>
        withRight == IF HasRight(n) /\ hasNonEmpty THEN Product(withLeft, r) ELSE withLeft
    IN  IF IsOptional(n) /\ String(cur) # <<>> THEN Append(withRight, <<>>) ELSE withRight

\* ------------------------------------------------------------------ token tables

\* var tokenSerachTable = map[byte][]timeFormatToken{...}: the candidates of each
\* first character, in the order they are tried.
tokenSerachTable ==
    ("M" :> <<<<"M", "M", "M", "M">>, <<"M", "M", "M">>, <<"M", "S", "T">>, <<"M", "M">>, <<"M">>>>) @@
    ("w" :> <<<<"w", "w">>, <<"w">>>>) @@
    ("d" :> <<<<"d", "d", "d">>, <<"d", "d">>, <<"d">>>>) @@
    ("D" :> <<<<"D", "D", "D">>, <<"D", "D">>, <<"D">>>>) @@
    ("H" :> <<<<"H", "H">>>>) @@
    ("h" :> <<<<"h", "h">>, <<"h">>>>) @@
    ("m" :> <<<<"m", "m">>, <<"m">>>>) @@
    ("s" :> <<<<"s", "s">>, <<"s">>>>) @@
    ("Y" :> <<<<"Y", "Y", "Y", "Y">>, <<"Y", "Y">>>>) @@
    ("y" :> <<<<"y", "y", "y", "y">>, <<"y", "y">>>>) @@
    ("A" :> <<<<"A">>>>) @@
    ("a" :> <<<<"a">>>>) @@
    ("Z" :> <<<<"Z", "0", "7", ":", "0", "0", ":", "0", "0">>, <<"Z", "0", "7", "0", "0", "0", "0">>, <<"Z", "0", "7">>, <<"Z", "Z">>, <<"Z">>>>) @@
    ("-" :> <<<<"-", "0", "7", ":", "0", "0", ":", "0", "0">>, <<"-", "0", "7", "0", "0", "0", "0">>, <<"-", "0", "7", ":", "0", "0">>, <<"-", "0", "7", "0", "0">>, <<"-", "0", "7">>>>)

\* var tokenTable = map[timeFormatToken]goTimeFmtToken{...}
tokenTable ==
    (<<"M", "M", "M", "M">> :> <<"J", "a", "n", "u", "a", "r", "y">>) @@
    (<<"M", "M", "M">> :> <<"J", "a", "n">>) @@
    (<<"M">> :> <<"1">>) @@
    (<<"M", "M">> :> <<"0", "1">>) @@
    (<<"w", "w">> :> <<"M", "o", "n", "d", "a", "y">>) @@
    (<<"w">> :> <<"M", "o", "n">>) @@
    (<<"D">> :> <<"2">>) @@
    (<<"d">> :> <<"2">>) @@
    (<<"D", "D">> :> <<"0", "2">>) @@
    (<<"d", "d">> :> <<"0", "2">>) @@
    (<<"D", "D", "D">> :> <<"0", "0", "2">>) @@
    (<<"d", "d", "d">> :> <<"0", "0", "2">>) @@
    (<<"H", "H">> :> <<"1", "5">>) @@
    (<<"h">> :> <<"3">>) @@
    (<<"h", "h">> :> <<"0", "3">>) @@
    (<<"m">> :> <<"4">>) @@
    (<<"m", "m">> :> <<"0", "4">>) @@
    (<<"s">> :> <<"5">>) @@
    (<<"s", "s">> :> <<"0", "5">>) @@
    (<<"Y", "Y", "Y", "Y">> :> <<"2", "0", "0", "6">>) @@
    (<<"y", "y", "y", "y">> :> <<"2", "0", "0", "6">>) @@
    (<<"Y", "Y">> :> <<"0", "6">>) @@
    (<<"y", "y">> :> <<"0", "6">>) @@
    (<<"A">> :> <<"P", "M">>) @@
    (<<"a">> :> <<"p", "m">>) @@
    (<<"M", "S", "T">> :> <<"M", "S", "T">>) @@
    (<<"Z", "Z">> :> <<"Z", "0", "7", "0", "0">>) @@
    (<<"Z", "0", "7", "0", "0", "0", "0">> :> <<"Z", "0", "7", "0", "0", "0", "0">>) @@
    (<<"Z", "0", "7">> :> <<"Z", "0", "7">>) @@
    (<<"Z">> :> <<"Z", "0", "7", ":", "0", "0">>) @@
    (<<"Z", "0", "7", ":", "0", "0", ":", "0", "0">> :> <<"Z", "0", "7", ":", "0", "0", ":", "0", "0">>) @@
    (<<"-", "0", "7", "0", "0">> :> <<"-", "0", "7", "0", "0">>) @@
    (<<"-", "0", "7", "0", "0", "0", "0">> :> <<"-", "0", "7", "0", "0", "0", "0">>) @@
    (<<"-", "0", "7">> :> <<"-", "0", "7">>) @@
    (<<"-", "0", "7", ":", "0", "0">> :> <<"-", "0", "7", ":", "0", "0">>) @@
    (<<"-", "0", "7", ":", "0", "0", ":", "0", "0">> :> <<"-", "0", "7", ":", "0", "0", ":", "0", "0">>)

\* ------------------------------------------------------------------ nextChunk

\* input[lo:] of a Go string, for a 1-based first position lo.
From(s, lo) == SubSeq(s, lo, Len(s))

\* A plausible slip: the run is not followed, only its first character is taken.
getRepeatOfFirstOnly(in, target) == SubSeq(in, 1, 1)

RECURSIVE getRepeatOf(_, _)
\* The leading run of target (one character) in input.
getRepeatOf(in, target) ==
    IF in # <<>> /\ <<Head(in)>> = target THEN <<Head(in)>> \o getRepeatOf(Tail(in), target)
    ELSE <<>>

RECURSIVE ClosingQuote(_, _)
\* The loop of getUntilClosingSingleQuote at 1-based index i: the index of the
\* quote it stops at, or Len(in) + 1 when it runs off the end.
ClosingQuote(in, i) ==
    IF i > Len(in) THEN i
    ELSE IF in[i] = "'"
            /\ (i = 1 \/ in[i - 1] # "\\" \/ (i >= 3 /\ in[i - 2] = "\\" /\ in[i - 1] = "\\"))
    THEN i
    ELSE ClosingQuote(in, i + 1)

getUntilClosingSingleQuote(in) == SubSeq(in, 1, ClosingQuote(in, 1) - 1)

NoFormatError == [kind |-> "nil", idx |-> 0, expected |-> <<>>, actual |-> <<>>]
FormatError(idx, expected, actual) ==
    [kind |-> "FormatError", idx |-> idx, expected |-> expected, actual |-> actual]

Chunk(prefix, found, suffix, isToken) ==
    [prefix |-> prefix, found |-> found, suffix |-> suffix, isToken |-> isToken,
     err |-> NoFormatError, panic |-> FALSE]
ChunkError(e) ==
    [prefix |-> <<>>, found |-> <<>>, suffix |-> <<>>, isToken |-> FALSE,
     err |-> e, panic |-> FALSE]
\* A slice expression out of range aborts the call.
ChunkPanic ==
    [prefix |-> <<>>, found |-> <<>>, suffix |-> <<>>, isToken |-> FALSE,
     err |-> NoFormatError, panic |-> TRUE]

\* A plausible slip: the candidates are tried from the last to the first.
MatchingShortestFirst(possibleSequences, tail) ==
    LET hits == SelectSeq(possibleSequences, LAMBDA possible : IsPrefix(possible, tail))
    IN  [k \in 1..Len(hits) |-> hits[Len(hits) + 1 - k]]

\* The candidates of possibleSequences that are a prefix of input[i:], in order.
Matching(possibleSequences, tail) ==
    SelectSeq(possibleSequences, LAMBDA possible : IsPrefix(possible, tail))

RECURSIVE ScanChunk(_, _)

\* A plausible slip: the `-` exemption is forgotten, every unmatched key is an error.
UnmatchedAlwaysFails(in, i, possibleSequences) ==
    ChunkError(FormatError(i - 1, possibleSequences, From(in, i)))

\* A plausible slip: the `-` exemption is given to every key.
UnmatchedNeverFails(in, i, possibleSequences) == ScanChunk(in, i + 1)

\* No candidate is a prefix of input[i:]: `-` is skipped as a literal, any other
\* key is a FormatError.
Unmatched(in, i, possibleSequences) ==
    IF in[i] = "-" THEN ScanChunk(in, i + 1)
    ELSE ChunkError(FormatError(i - 1, possibleSequences, From(in, i)))

\* The loop of nextChunk at 1-based index i (Go's i + 1).
ScanChunk(in, i) ==
    IF i > Len(in) THEN Chunk(in, <<>>, <<>>, FALSE)
    ELSE IF in[i] = "\\"
    THEN \* input[i+1 : i+2] needs i+2 <= len(input)
         IF i + 1 > Len(in) THEN ChunkPanic
         ELSE Chunk(SubSeq(in, 1, i - 1), <<in[i + 1]>>, From(in, i + 2), FALSE)
    ELSE IF in[i] = "." /\ i + 1 <= Len(in) /\ in[i + 1] \in {"S", "9", "0"}
    THEN LET repeated == getRepeatOf(From(in, i + 1), <<in[i + 1]>>)
         IN  Chunk(SubSeq(in, 1, i - 1), <<".">> \o repeated,
                   From(in, i + 1 + Len(repeated)), TRUE)
    ELSE IF in[i] = "'"
    THEN LET unescaped == getUntilClosingSingleQuote(From(in, i + 1))
         IN  \* input[i+len(`'`+unescaped+`'`):] needs that offset <= len(input)
             IF i + Len(unescaped) + 1 > Len(in) THEN ChunkPanic
             ELSE Chunk(SubSeq(in, 1, i - 1), unescaped, From(in, i + Len(unescaped) + 2), FALSE)
    ELSE IF in[i] \in DOMAIN tokenSerachTable
    THEN LET possibleSequences == tokenSerachTable[in[i]]
             hits == Matching(possibleSequences, From(in, i))
         IN  IF hits # <<>>
             THEN Chunk(SubSeq(in, 1, i - 1), hits[1], From(in, i + Len(hits[1])), TRUE)
             ELSE Unmatched(in, i, possibleSequences)
    ELSE ScanChunk(in, i + 1)

nextChunk(in) == ScanChunk(in, 1)

\* timeFormatToken.toGoFmt: the table entry, or the computed fractional-second
\* spelling; <<"panic">> stands for panic("unknown: ...").
toGoFmt(tt) ==
    IF tt \in DOMAIN tokenTable THEN tokenTable[tt]
    ELSE IF IsPrefix(<<".", "S">>, tt) THEN [k \in 1..Len(tt) |-> IF tt[k] = "S" THEN "0" ELSE tt[k]]
    ELSE IF IsPrefix(<<".", "0">>, tt) \/ IsPrefix(<<".", "9">>, tt) THEN tt
    ELSE <<"panic">>

\* A plausible slip: the `.0` spelling of the fractional second is forgotten.
ToGoFmtPanicsOnZero(tt) ==
    /\ tt \notin DOMAIN tokenTable
    /\ ~IsPrefix(<<".", "S">>, tt) /\ ~IsPrefix(<<".", "9">>, tt)

ToGoFmtPanics(tt) ==
    /\ tt \notin DOMAIN tokenTable
    /\ ~IsPrefix(<<".", "S">>, tt) /\ ~IsPrefix(<<".", "0">>, tt) /\ ~IsPrefix(<<".", "9">>, tt)

\* ------------------------------------------------------------------ EnumerateOptionalString

NoError == [kind |-> "nil", org |-> <<>>, parsedAs |-> <<>>]
\* &SyntaxError{org: optionalString, parsedAs: parsedAs}
SyntaxError(org, parsedAs) == [kind |-> "SyntaxError", org |-> org, parsedAs |-> parsedAs]

\* The renderings of a list of rawStrings, in order.
Strings(rss) == [k \in 1..Len(rss) |-> String(rss[k])]

Range(seq) == {seq[k] : k \in 1..Len(seq)}

\* A list as a bag: how often each element occurs.
SeqToBag(seq) == [x \in Range(seq) |-> Cardinality({k \in 1..Len(seq) : seq[k] = x})]

\* out := set.New[string](); out.Add(v.String()) for each v; out.Values().Collect()
CollectSet(rss) == SetToBag(Range(Strings(rss)))

\* optionalstring.treeNode.Flatten: package optionalstring's tree is the same
\* binary tree, flattened by the same six steps.
RawFlatten(n) == Flatten(n)

\* out[idx] = v.String() for each element of EnumerateOptionalStringRaw's result
CollectList(rss) == SeqToBag(Strings(rss))

Letters == {"a", "b"}
Alphabet == Letters \cup {"[", "]", "'", "\\", " "}
BracketAlphabet == Letters \cup {"[", "]"}
BlankAlphabet == {"a", " ", "[", "]"}
\* A quote, a backslash and a letter that is no key of the search table.
QuoteAlphabet == {"'", "\\", "x"}

Templates ==
    StringsUpTo(Alphabet, MaxLen)
    \cup StringsUpTo(BracketAlphabet, MaxBracketLen)
    \cup StringsUpTo(BlankAlphabet, MaxBracketLen)
    \cup StringsUpTo(QuoteAlphabet, MaxQuoteLen)

evars == <<pkg, input, pc, node, root, f, enumerated, err>>
tvars == <<format, rest, output, ferr, tpc>>
rvars == <<raw, rawIdx, rawOutput, rawErr, rpc>>
vars == <<evars, tvars, rvars>>

\* No call of ReplaceTimeToken is in progress.
TranslateIdle ==
    /\ format = <<>>
    /\ rest = <<>>
    /\ output = <<>>
    /\ ferr = NoFormatError
    /\ tpc = "idle"

\* No call of EnumerateOptionalString is in progress.
ExpandIdle ==
    /\ pkg = "flextime"
    /\ input = <<>>
    /\ pc = "idle"
    /\ node = NonTerminal("", <<>>)
    /\ root = NewTreeNode
    /\ f = <<>>
    /\ enumerated = EmptyBag
    /\ err = NoError

\* No call of ReplaceTimeTokenRaw is in progress.
RawIdle ==
    /\ raw = <<>>
    /\ rawIdx = 1
    /\ rawOutput = <<>>
    /\ rawErr = NoFormatError
    /\ rpc = "idle"

Init ==
    /\ pkg \in {"flextime", "optionalstring"}
    /\ input \in Templates
    /\ pc = "start"
    /\ node = NonTerminal("", <<>>)
    /\ root = NewTreeNode
    /\ f = <<>>
    /\ enumerated = EmptyBag
    /\ err = NoError
    /\ TranslateIdle
    /\ RawIdle

\* node, _ = ast.Parsewith(p, s)
Parse ==
    /\ pc = "start"
    /\ node' = MakeOptionalStringParser(pkg, input)
    /\ pc' = "parsed"
    /\ UNCHANGED <<pkg, input, root, f, enumerated, err, tvars, rvars>>

\* len(parsedAs) != len(optionalString): return the empty list and a SyntaxError
ReturnSyntaxError ==
    /\ pc = "parsed"
    /\ Len(GetValue(node)) # Len(input)
    /\ err' = SyntaxError(input, GetValue(node))
    /\ enumerated' = EmptyBag
    /\ pc' = "done"
    /\ UNCHANGED <<pkg, input, node, root, f, tvars, rvars>>

\* root := &treeNode{}; decode(node, root)
Decode ==
    /\ pc = "parsed"
    /\ Len(GetValue(node)) = Len(input)
    /\ root' = decode(node)
    /\ pc' = "decoded"
    /\ UNCHANGED <<pkg, input, node, f, enumerated, err, tvars, rvars>>

\* f := root.Flatten()
FlattenRoot ==
    /\ pc = "decoded"
    /\ f' = IF pkg = "flextime" THEN Flatten(root) ELSE RawFlatten(root)
    /\ pc' = "flattened"
    /\ UNCHANGED <<pkg, input, node, root, enumerated, err, tvars, rvars>>

\* the renderings are collected and returned with a nil error
Return ==
    /\ pc = "flattened"
    /\ enumerated' = IF pkg = "flextime" THEN CollectSet(f) ELSE CollectList(f)
    /\ pc' = "done"
    /\ UNCHANGED <<pkg, input, node, root, f, err, tvars, rvars>>

Next == Parse \/ ReturnSyntaxError \/ Decode \/ FlattenRoot \/ Return

Spec == Init /\ [][Next]_vars

\* ------------------------------------------------------------------ ReplaceTimeToken

\* Longest format over FormatAlphabet.
MaxFormatLen == 4
\* Longest run of one token letter.
MaxRepeat == 5

Rep(c, n) == [k \in 1..n |-> c]

FormatAlphabet == {"Y", "M", "D", "Z", "-", "0", "7", ":", ".", "S", "\\", "'", "x"}

\* Characters that are no key of the search table and continue no token.
Separators == {<<"-">>, <<":">>, <<"/">>, <<" ">>, <<"T">>, <<".">>, <<"x">>}

Tokens == DOMAIN tokenTable

\* Formats of two tokens around a separator, and of three date tokens.
TokenFormats ==
    {a \o s \o b : a \in Tokens, s \in Separators, b \in Tokens}
    \cup {y \o s1 \o m \o s2 \o d :
            y \in {Rep("Y", 4), Rep("Y", 2)}, m \in {Rep("M", k) : k \in 1..4},
            d \in {Rep("D", k) : k \in 1..3}, s1 \in Separators, s2 \in Separators}

\* Runs of one key of the search table.
RepeatFormats == {Rep(c, n) : c \in DOMAIN tokenSerachTable, n \in 1..MaxRepeat}

QuoteFormats == StringsUpTo(QuoteAlphabet, MaxQuoteLen)

\* Fractional seconds in their three spellings, alone and after a token.
FractionFormats ==
    {t \o <<".">> \o Rep(c, n) : t \in {<<>>, <<"s", "s">>}, c \in {"S", "0", "9"}, n \in 1..3}

Formats ==
    StringsUpTo(FormatAlphabet, MaxFormatLen) \cup TokenFormats \cup RepeatFormats
    \cup QuoteFormats \cup FractionFormats

TranslateInit ==
    /\ ExpandIdle
    /\ RawIdle
    /\ format \in Formats
    /\ rest = format
    /\ output = <<>>
    /\ ferr = NoFormatError
    /\ tpc = "loop"

\* One turn of the loop: nextChunk returned a chunk, which is appended.
AppendChunk ==
    /\ tpc = "loop"
    /\ Len(rest) > 0
    /\ LET c == nextChunk(rest)
       IN  /\ ~c.panic
           /\ c.err.kind = "nil"
           /\ ~(c.isToken /\ ToGoFmtPanics(c.found))
           /\ output' = output \o c.prefix \o (IF c.isToken THEN toGoFmt(c.found) ELSE c.found)
           /\ rest' = c.suffix
    /\ UNCHANGED <<format, ferr, tpc, evars, rvars>>

\* nextChunk returned an error: return "", err
ReturnFormatError ==
    /\ tpc = "loop"
    /\ Len(rest) > 0
    /\ LET c == nextChunk(rest)
       IN  /\ ~c.panic
           /\ c.err.kind # "nil"
           /\ ferr' = c.err
    /\ output' = <<>>
    /\ tpc' = "done"
    /\ UNCHANGED <<format, rest, evars, rvars>>

\* A slice out of range in nextChunk, or toGoFmt's panic, aborts the call.
Panic ==
    /\ tpc = "loop"
    /\ Len(rest) > 0
    /\ LET c == nextChunk(rest)
       IN  c.panic \/ (c.err.kind = "nil" /\ c.isToken /\ ToGoFmtPanics(c.found))
    /\ tpc' = "panic"
    /\ UNCHANGED <<format, rest, output, ferr, evars, rvars>>

\* len(input) == 0: return output, nil
ReturnOutput ==
    /\ tpc = "loop"
    /\ Len(rest) = 0
    /\ tpc' = "done"
    /\ UNCHANGED <<format, rest, output, ferr, evars, rvars>>

TranslateNext == AppendChunk \/ ReturnFormatError \/ Panic \/ ReturnOutput

SpecTranslate == TranslateInit /\ [][TranslateNext]_vars

\* ------------------------------------------------------------------ ReplaceTimeTokenRaw

\* Most values of a RawString.
MaxRuns == 2

RECURSIVE TranslateLoop(_, _)

\* One turn of ReplaceTimeToken's loop on the chunk c that nextChunk returned.
TranslateChunk(c, out) ==
    IF c.panic \/ (c.err.kind = "nil" /\ c.isToken /\ ToGoFmtPanics(c.found))
    THEN [output |-> <<>>, err |-> NoFormatError, panic |-> TRUE]
    ELSE IF c.err.kind # "nil"
    THEN [output |-> <<>>, err |-> c.err, panic |-> FALSE]
    ELSE TranslateLoop(c.suffix,
                       out \o c.prefix \o (IF c.isToken THEN toGoFmt(c.found) ELSE c.found))

\* for len(input) > 0 { ... }; return output, nil
TranslateLoop(in, out) ==
    IF Len(in) > 0 THEN TranslateChunk(nextChunk(in), out)
    ELSE [output |-> out, err |-> NoFormatError, panic |-> FALSE]

\* ReplaceTimeToken as ReplaceTimeTokenRaw calls it: the result of the whole call.
ReplaceTimeToken(in) == TranslateLoop(in, <<>>)

\* optionalstring.Value: a run of text and its origin.
RawValue(typ, text) == [typ |-> typ, value |-> text]

\* vv.Unescaped(): the text of the run.
Unescaped(vv) == vv.value

\* A plausible slip: the switch on vv.Typ() is left out, every run is translated.
RawRunAlwaysTranslated(vv) == ReplaceTimeToken(Unescaped(vv))

\* The switch of ReplaceTimeTokenRaw on one value: an escaped run is copied,
\* a normal run is translated.
RawRun(vv) ==
    IF vv.typ \in {"singleQuoteEscaped", "slashEscaped"}
    THEN [output |-> Unescaped(vv), err |-> NoFormatError, panic |-> FALSE]
    ELSE ReplaceTimeToken(Unescaped(vv))

RunTexts ==
    {<<"Y">>, Rep("Y", 4), Rep("Y", 3), Rep("M", 2), <<"-">>, <<"x">>, <<".", "S">>,
     <<"\\", "Y">>, <<"'", "Y", "'">>, <<"\\">>}

RawValues == {RawValue(typ, text) : typ \in {"normal", "singleQuoteEscaped", "slashEscaped"},
                                    text \in RunTexts}

RawStrings == UNION {[1..n -> RawValues] : n \in 0..MaxRuns}

RawInit ==
    /\ ExpandIdle
    /\ TranslateIdle
    /\ raw \in RawStrings
    /\ rawIdx = 1
    /\ rawOutput = <<>>
    /\ rawErr = NoFormatError
    /\ rpc = "loop"

\* One turn of the range loop: the run's text or its translation is appended.
RawAppend ==
    /\ rpc = "loop"
    /\ rawIdx <= Len(raw)
    /\ ~RawRun(raw[rawIdx]).panic
    /\ RawRun(raw[rawIdx]).err.kind = "nil"
    /\ rawOutput' = rawOutput \o RawRun(raw[rawIdx]).output
    /\ rawIdx' = rawIdx + 1
    /\ UNCHANGED <<raw, rawErr, rpc, evars, tvars>>

\* ReplaceTimeToken returned an error: return "", err
RawReturnError ==
    /\ rpc = "loop"
    /\ rawIdx <= Len(raw)
    /\ ~RawRun(raw[rawIdx]).panic
    /\ RawRun(raw[rawIdx]).err.kind # "nil"
    /\ rawErr' = RawRun(raw[rawIdx]).err
    /\ rawOutput' = <<>>
    /\ rpc' = "done"
    /\ UNCHANGED <<raw, rawIdx, evars, tvars>>

\* ReplaceTimeToken aborted, and ReplaceTimeTokenRaw with it.
RawPanic ==
    /\ rpc = "loop"
    /\ rawIdx <= Len(raw)
    /\ RawRun(raw[rawIdx]).panic
    /\ rpc' = "panic"
    /\ UNCHANGED <<raw, rawIdx, rawOutput, rawErr, evars, tvars>>

\* the range is exhausted: return output, nil
RawReturn ==
    /\ rpc = "loop"
    /\ rawIdx > Len(raw)
    /\ rpc' = "done"
    /\ UNCHANGED <<raw, rawIdx, rawOutput, rawErr, evars, tvars>>

RawNext == RawAppend \/ RawReturnError \/ RawPanic \/ RawReturn

SpecRaw == RawInit /\ [][RawNext]_vars

\* ------------------------------------------------------------------ reading a template

\* What each character of a template is, read as section 4.1 of the design
\* describes it: "esc" the backslash of an escape and "escd" the character it
\* escapes, "quote" a quote delimiter, "quoted" a character inside a quoted
\* block, "open" and "close" the brackets of optional groups, "plain" the rest.
RECURSIVE Classify(_, _, _)
Classify(s, i, inq) ==
    IF i > Len(s) THEN <<>>
    ELSE IF s[i] = "\\" /\ i < Len(s) THEN <<"esc", "escd">> \o Classify(s, i + 2, inq)
    ELSE IF s[i] = "\\" THEN <<"dangling">>
    ELSE IF s[i] = "'" THEN <<"quote">> \o Classify(s, i + 1, ~inq)
    ELSE IF inq THEN <<"quoted">> \o Classify(s, i + 1, inq)
    ELSE IF s[i] = "[" THEN <<"open">> \o Classify(s, i + 1, inq)
    ELSE IF s[i] = "]" THEN <<"close">> \o Classify(s, i + 1, inq)
    ELSE <<"plain">> \o Classify(s, i + 1, inq)

Classes(s) == Classify(s, 1, FALSE)

CountOf(cl, c) == Cardinality({k \in 1..Len(cl) : cl[k] = c})

\* The nesting depth after the first k characters.
DepthAt(cl, k) ==
    Cardinality({j \in 1..k : cl[j] = "open"}) - Cardinality({j \in 1..k : cl[j] = "close"})

\* An unmatched `]`, an unmatched `[`, or a quoted block that is never closed.
Unbalanced(s) ==
    LET cl == Classes(s)
    IN  \/ \E k \in 1..Len(cl) : DepthAt(cl, k) < 0
        \/ DepthAt(cl, Len(cl)) > 0
        \/ CountOf(cl, "quote") % 2 = 1

\* The number of optional groups of a balanced template.
CountGroups(s) == CountOf(Classes(s), "open")

\* The template without its escape markers: the backslash of every escape and
\* the quotes around every quoted block.
Strip(s) ==
    LET cl == Classes(s)
        keep == {k \in 1..Len(s) : cl[k] \notin {"esc", "quote"}}
        RECURSIVE Pick(_)
        Pick(k) == IF k > Len(s) THEN <<>>
                   ELSE IF k \in keep THEN <<s[k]>> \o Pick(k + 1) ELSE Pick(k + 1)
    IN  Pick(1)

\* The position of the `]` that closes the group opened at i (0 when there is none).
CloseOf(s, i) ==
    LET cl == Classes(s)
        closers == {j \in (i + 1)..Len(s) :
                      cl[j] = "close" /\ DepthAt(cl, j) = DepthAt(cl, i) - 1}
    IN  IF cl[i] # "open" \/ closers = {} THEN 0
        ELSE CHOOSE j \in closers : \A k \in closers : j <= k

\* A plain run: no bracket, quote or backslash.
Plain(s) == \A k \in 1..Len(s) : s[k] \notin SpecialChars

Renderings == BagToSet(enumerated)

Returned == pc = "done" /\ err.kind = "nil"

\* ------------------------------------------------------------------ claims: Expand

Sub(a, b) == SubSeq(input, a, b)

\* A plain run; with anyBlank = FALSE one that does not begin with whitespace
\* (parsec.Token drops the whitespace in front of a run).
Run(s, anyBlank) == Plain(s) /\ (anyBlank \/ s = <<>> \/ s[1] \notin WSChars)

PlainGroup(anyBlank) ==
    pc = "done" =>
        \A i \in 2..(Len(input) - 2) :
            LET P == Sub(1, i - 1)
                Q == Sub(i + 1, Len(input) - 1)
            IN  (input[i] = "[" /\ input[Len(input)] = "]" /\ Run(P, anyBlank) /\ Run(Q, anyBlank))
                => (err.kind = "nil" /\ Renderings = {P, P \o Q})

\* C1: for every template P[Q] with P and Q non-empty plain runs, Expand returns
\* exactly the renderings P and PQ.
C1_PlainGroup == PlainGroup(TRUE)

\* C1 holds of the runs that do not begin with whitespace.
C1_PlainGroupNoLeadingBlank == PlainGroup(FALSE)

NestedGroup(anyBlank) ==
    pc = "done" =>
        \A i \in 2..Len(input) : \A j \in (i + 2)..Len(input) :
            LET P == Sub(1, i - 1)
                Q == Sub(i + 1, j - 1)
                k == CloseOf(input, j)
                R == Sub(j + 1, k - 1)
                S == Sub(k + 1, Len(input) - 1)
            IN  (/\ input[i] = "[" /\ input[j] = "[" /\ input[Len(input)] = "]"
                 /\ k > j + 1 /\ k < Len(input)
                 /\ Run(P, anyBlank) /\ Run(Q, anyBlank) /\ Run(R, anyBlank) /\ Run(S, anyBlank))
                => /\ err.kind = "nil"
                   /\ Renderings \subseteq {P, P \o Q \o S, P \o Q \o R \o S}
                   /\ S = <<>> => Renderings = {P, P \o Q, P \o Q \o R}

\* C2: for every template P[Q[R]] with non-empty plain P, Q, R the renderings are
\* exactly P, PQ and PQR; and in P[Q[R]S] the inner R never appears without the
\* Q of the group around it.
C2_NestedGroup == NestedGroup(TRUE)

\* C2 holds of the runs that do not begin with whitespace.
C2_NestedGroupNoLeadingBlank == NestedGroup(FALSE)

\* C3: for every template X[G]Y that parses, with X and Y plain (possibly empty)
\* and G non-empty, the rendering XY that skips the group is among the results.
C3_GroupCanBeSkipped ==
    Returned =>
        \A i \in 1..Len(input) :
            LET j == CloseOf(input, i)
                X == Sub(1, i - 1)
                Y == Sub(j + 1, Len(input))
            IN  (input[i] = "[" /\ Plain(X) /\ j > i + 1 /\ Plain(Y))
                => (X \o Y) \in Renderings

\* C4: for every template without an optional group that parses, the empty
\* template included, Expand returns exactly one sequence, and it renders as the
\* template with its escape markers removed.
C4_NoGroupOneRendering ==
    (Returned /\ CountGroups(input) = 0)
        => (BagCardinality(enumerated) = 1 /\ Renderings = {Strip(input)})

\* What the code does for C4's templates: none for the empty template, and for
\* every other one the template itself, escape markers kept.
C4_NoGroupVerbatim ==
    (Returned /\ CountGroups(input) = 0)
        => IF input = <<>> THEN enumerated = EmptyBag
           ELSE BagCardinality(enumerated) = 1 /\ Renderings = {input}

SiblingGroups(anyBlank) ==
    pc = "done" =>
        \A i \in 1..Len(input) : \A j \in (i + 2)..Len(input) :
        \A k \in (j + 1)..Len(input) : \A m \in (k + 2)..Len(input) :
            LET X == Sub(1, i - 1)
                A == Sub(i + 1, j - 1)
                Y == Sub(j + 1, k - 1)
                B == Sub(k + 1, m - 1)
                Z == Sub(m + 1, Len(input))
            IN  (/\ input[i] = "[" /\ input[j] = "]" /\ input[k] = "[" /\ input[m] = "]"
                 /\ Run(X, anyBlank) /\ Run(A, anyBlank) /\ Run(Y, anyBlank)
                 /\ Run(B, anyBlank) /\ Run(Z, anyBlank))
                => /\ err.kind = "nil"
                   /\ Renderings = {X \o Y \o Z, X \o A \o Y \o Z,
                                    X \o Y \o B \o Z, X \o A \o Y \o B \o Z}

\* C5: for every template X[A]Y[B]Z with A and B non-empty plain runs and X, Y, Z
\* plain runs, Expand returns exactly the renderings XYZ, XAYZ, XYBZ and XAYBZ.
C5_SiblingGroups == SiblingGroups(TRUE)

\* C5 holds of the runs that do not begin with whitespace.
C5_SiblingGroupsNoLeadingBlank == SiblingGroups(FALSE)

\* C6: for every template with n optional groups that parses, Expand returns at
\* most 2^n distinct renderings.
C6_AtMostTwoPowerN == Returned => Cardinality(Renderings) <= 2 ^ CountGroups(input)

\* C6's bound is met: two groups, four renderings.
C6_Witness == Returned /\ CountGroups(input) = 2 /\ Cardinality(Renderings) = 4

C7_NoDuplicatesFlextime ==
    (pc = "done" /\ pkg = "flextime") => \A s \in Renderings : CopiesIn(s, enumerated) = 1

SyntaxErrorCarriesPrefix(anyBlank) ==
    (pc = "done" /\ Unbalanced(input)
        /\ (anyBlank \/ \A k \in 1..Len(input) : input[k] \notin WSChars))
        => /\ err.kind = "SyntaxError"
           /\ err.org = input
           /\ IsPrefix(err.parsedAs, input) /\ Len(err.parsedAs) < Len(input)
           /\ enumerated = EmptyBag

\* C8: for every template with an unmatched bracket or an unterminated quoted
\* block, Expand returns no sequence and a SyntaxError that carries the input and
\* the prefix of it that the grammar consumed.
C8_SyntaxErrorCarriesPrefix == SyntaxErrorCarriesPrefix(TRUE)

\* C8 holds of the templates without whitespace.
C8_SyntaxErrorNoBlank == SyntaxErrorCarriesPrefix(FALSE)

\* ------------------------------------------------------------------ claims: Translate

SepChars == {s[1] : s \in Separators}

RECURSIVE RunLen(_, _)
\* The length of the run of non-separators that starts at i.
RunLen(s, i) == IF i <= Len(s) /\ s[i] \notin SepChars THEN 1 + RunLen(s, i + 1) ELSE 0

RECURSIVE MadeOfTokens(_, _)
\* From i on, every run between separators is a token of tokenTable.
MadeOfTokens(s, i) ==
    IF i > Len(s) THEN TRUE
    ELSE IF s[i] \in SepChars THEN MadeOfTokens(s, i + 1)
    ELSE LET n == RunLen(s, i)
         IN  SubSeq(s, i, i + n - 1) \in Tokens /\ MadeOfTokens(s, i + n)

RECURSIVE Expected(_, _)
\* Every token replaced by its tokenTable entry, every separator copied.
Expected(s, i) ==
    IF i > Len(s) THEN <<>>
    ELSE IF s[i] \in SepChars THEN <<s[i]>> \o Expected(s, i + 1)
    ELSE LET n == RunLen(s, i)
         IN  tokenTable[SubSeq(s, i, i + n - 1)] \o Expected(s, i + n)

Ended == tpc \in {"done", "panic"}

\* C9: ReplaceTimeToken of recognized tokens separated by characters that start
\* no token replaces each token by its tokenTable entry and copies the
\* separators, a `-` before a letter included.
C9_TokensReplaced ==
    (Ended /\ MadeOfTokens(format, 1))
        => (tpc = "done" /\ ferr.kind = "nil" /\ output = Expected(format, 1))

\* "YYYY-MM-DD" yields "2006-01-02".
C9_Witness ==
    /\ tpc = "done"
    /\ format = Rep("Y", 4) \o <<"-">> \o Rep("M", 2) \o <<"-">> \o Rep("D", 2)
    /\ output = <<"2", "0", "0", "6", "-", "0", "1", "-", "0", "2">>

SearchKeys == DOMAIN tokenSerachTable

NoCandidate(s, k) ==
    \A n \in 1..Len(tokenSerachTable[s[k]]) : ~IsPrefix(tokenSerachTable[s[k]][n], From(s, k))

\* A token starts at k.
StartsToken(s, k) ==
    \/ s[k] = "." /\ k < Len(s) /\ s[k + 1] \in {"S", "9", "0"}
    \/ s[k] \in SearchKeys /\ ~NoCandidate(s, k)

\* The scan of s reaches a key other than `-` of which no spelling matches:
\* before it there are only literals.
ScanReachesBadKey(s) ==
    \E i \in 1..Len(s) :
        /\ s[i] \in SearchKeys \ {"-"}
        /\ NoCandidate(s, i)
        /\ \A k \in 1..(i - 1) : ~StartsToken(s, k) /\ (s[k] \in SearchKeys => s[k] = "-")

PlainFormat(s) == \A k \in 1..Len(s) : s[k] \notin {"\\", "'"}

\* C10: when the scan of a plain string reaches a key of the search table other
\* than `-` of which no spelling is a prefix of the text from there on,
\* ReplaceTimeToken returns a FormatError and the empty string; "YYY" does so.
C10_BadKeyFails ==
    /\ [][(tpc = "loop" /\ PlainFormat(rest) /\ ScanReachesBadKey(rest))
            => (tpc' = "done" /\ ferr'.kind = "FormatError" /\ output' = <<>>)]_vars
    /\ []((Ended /\ format = Rep("Y", 3))
            => (tpc = "done" /\ ferr.kind = "FormatError" /\ output = <<>>))

\* "YYY": the token YY is replaced, then the last Y fails.
C10_Witness ==
    /\ tpc = "done"
    /\ format = Rep("Y", 3)
    /\ ferr.kind = "FormatError"
    /\ ferr.actual = <<"Y">>
    /\ output = <<>>

\* ------------------------------------------------------------------ token errors

\* C11: for every key L of the search table and every n >= 1 such that no
\* spelling of L's candidate list is n copies of L, ReplaceTimeToken of n copies
\* of L returns a FormatError.
C11_BadLengthFails ==
    \A L \in SearchKeys, n \in 1..MaxRepeat :
        (Ended /\ format = Rep(L, n) /\ Rep(L, n) \notin Range(tokenSerachTable[L]))
            => (tpc = "done" /\ ferr.kind = "FormatError")

\* What the code does for a run of one key: it fails exactly when the run cannot
\* be cut, longest spelling first, into spellings of the key (`-` never fails).
RECURSIVE CutsIntoSpellings(_, _)
CutsIntoSpellings(L, n) ==
    IF n = 0 THEN TRUE
    ELSE LET hits == Matching(tokenSerachTable[L], Rep(L, n))
         IN  IF hits = <<>> THEN L = "-" /\ CutsIntoSpellings(L, n - 1)
             ELSE CutsIntoSpellings(L, n - Len(hits[1]))

C11_BadLengthFailsWhenNotCut ==
    \A L \in SearchKeys, n \in 1..MaxRepeat :
        (Ended /\ format = Rep(L, n))
            => /\ tpc = "done"
               /\ (ferr.kind = "FormatError") <=> ~CutsIntoSpellings(L, n)

\* C13: ReplaceTimeToken returns a string or a FormatError, it never aborts.
C13_NeverAborts == tpc # "panic"

\* What holds in the code: the call aborts only on a backslash that ends the
\* input or on a quote that is never closed.
C13_AbortsOnlyOnDanglingEscape ==
    tpc = "panic" => \E k \in 1..Len(rest) : rest[k] \in {"\\", "'"}

\* C14: the idx of a FormatError is the offset in the input of the offending
\* character, actual is the input from there on, expected the candidate list of
\* that character.
C14_ErrorOffset ==
    (tpc = "done" /\ ferr.kind = "FormatError")
        => /\ ferr.idx < Len(format)
           /\ From(format, ferr.idx + 1) = ferr.actual
           /\ format[ferr.idx + 1] \in SearchKeys
           /\ ferr.expected = tokenSerachTable[format[ferr.idx + 1]]

\* What holds in the code: idx is an offset in the text left when nextChunk was
\* called, the chunks already translated are not counted.
C14_ErrorOffsetInRest ==
    (tpc = "done" /\ ferr.kind = "FormatError")
        => /\ ferr.idx < Len(rest)
           /\ From(rest, ferr.idx + 1) = ferr.actual
           /\ rest[ferr.idx + 1] \in SearchKeys
           /\ ferr.expected = tokenSerachTable[rest[ferr.idx + 1]]

\* ------------------------------------------------------------------ the lexer's tokens

\* nextChunk is about to be called on what is left of the input.
Scanning == tpc = "loop" /\ rest # <<>>

\* The chunk nextChunk returns is a token.
ReturnsToken(c) == ~c.panic /\ c.err.kind = "nil" /\ c.isToken

FractionalSecond(tt) ==
    IsPrefix(<<".", "S">>, tt) \/ IsPrefix(<<".", "0">>, tt) \/ IsPrefix(<<".", "9">>, tt)

\* C19: every spelling of the search table is a key of tokenTable, every token
\* nextChunk returns is a key of tokenTable or begins with .S, .0 or .9, and
\* ReplaceTimeToken never aborts in toGoFmt.
C19_NoUnknownToken ==
    /\ \A L \in SearchKeys : Range(tokenSerachTable[L]) \subseteq Tokens
    /\ Scanning =>
        LET c == nextChunk(rest)
        IN  ReturnsToken(c)
                => /\ c.found \in Tokens \/ FractionalSecond(c.found)
                   /\ ~ToGoFmtPanics(c.found)
    /\ tpc = "panic" => nextChunk(rest).panic

\* "Z.S": a token of the table and a fractional second were handed to toGoFmt.
C19_Witness ==
    /\ tpc = "done"
    /\ format = <<"Z", ".", "S">>
    /\ ferr.kind = "nil"
    /\ output = <<"Z", "0", "7", ":", "0", "0", ".", "0">>

\* C20: in every candidate list a spelling comes before each of its proper
\* prefixes, and the token nextChunk returns for a key is the longest candidate
\* of that key that is a prefix of the text from the key on.
C20_LongestMatch ==
    /\ \A L \in SearchKeys :
        \A i, j \in 1..Len(tokenSerachTable[L]) :
            (IsPrefix(tokenSerachTable[L][j], tokenSerachTable[L][i]) /\ i # j) => i < j
    /\ Scanning =>
        LET c == nextChunk(rest)
            at == Len(c.prefix) + 1
        IN  (ReturnsToken(c) /\ rest[at] \in SearchKeys)
                => /\ c.found \in Range(tokenSerachTable[rest[at]])
                   /\ IsPrefix(c.found, From(rest, at))
                   /\ \A possible \in Range(tokenSerachTable[rest[at]]) :
                        IsPrefix(possible, From(rest, at)) => Len(possible) <= Len(c.found)

\* "MMM-MMMM": MMM is not taken for MM or M, MMMM not for MMM.
C20_Witness ==
    /\ tpc = "done"
    /\ format = Rep("M", 3) \o <<"-">> \o Rep("M", 4)
    /\ output = <<"J", "a", "n", "-", "J", "a", "n", "u", "a", "r", "y">>

\* ------------------------------------------------------------------ quoted blocks

RECURSIVE BackslashesBefore(_, _)
\* The number of consecutive backslashes that end just before position i of a
\* text whose first character is the opening quote.
BackslashesBefore(s, i) ==
    IF i > 2 /\ s[i - 1] = "\\" THEN 1 + BackslashesBefore(s, i - 1) ELSE 0

\* The quotes after the opening one that an even number of backslashes precedes.
ClosingQuotes(s) == {i \in 2..Len(s) : s[i] = "'" /\ BackslashesBefore(s, i) % 2 = 0}

\* The closing quote as the design describes it: the first of them.
CloseOfBlock(s) == CHOOSE i \in ClosingQuotes(s) : \A j \in ClosingQuotes(s) : i <= j

OpensBlock(s) == s # <<>> /\ s[1] = "'" /\ ClosingQuotes(s) # {}

\* C16: a quoted block ends at the first quote that an even number of
\* backslashes precedes, in the token lexer (getUntilClosingSingleQuote) as in
\* the grammar.
C16_ClosingQuote ==
    (Scanning /\ OpensBlock(rest))
        => LET c == nextChunk(rest)
           IN  /\ ~c.panic /\ c.err.kind = "nil" /\ ~c.isToken
               /\ c.found = SubSeq(rest, 2, CloseOfBlock(rest) - 1)
               /\ c.suffix = From(rest, CloseOfBlock(rest) + 1)

\* What holds in the code's lexer: a quote closes the block unless exactly one
\* backslash precedes it; after two or more backslashes it always closes.
LexerClosingQuotes(s) ==
    {i \in 2..Len(s) : s[i] = "'" /\ (BackslashesBefore(s, i) # 1)}

C16_ClosingQuoteLexer ==
    (Scanning /\ rest[1] = "'" /\ LexerClosingQuotes(rest) # {})
        => LET c == nextChunk(rest)
               i == CHOOSE i \in LexerClosingQuotes(rest) :
                        \A j \in LexerClosingQuotes(rest) : i <= j
           IN  /\ ~c.panic /\ c.err.kind = "nil" /\ ~c.isToken
               /\ c.found = SubSeq(rest, 2, i - 1)
               /\ c.suffix = From(rest, i + 1)

\* The grammar's quoted block (package optionalstring, where a template may
\* begin with one) does end at the first quote after an even number of
\* backslashes, when the block is not empty and holds no blank.
C16_ClosingQuoteGrammar ==
    (/\ pc = "parsed" /\ pkg = "optionalstring"
     /\ OpensBlock(input) /\ CloseOfBlock(input) > 2
     /\ \A k \in 1..Len(input) : input[k] \notin WSChars)
        => /\ node.children # <<>>
           /\ node.children[1].name = "ESCAPED"
           /\ GetValue(node.children[1]) = SubSeq(input, 1, CloseOfBlock(input))

\* ------------------------------------------------------------------ the expansion tree

\* The template is one backslash escape.
OneEscape == Len(input) = 2 /\ input[1] = "\\"

\* C15: a backslash escape `\x` is decoded into one run whose text is the one
\* character x and whose origin is slashEscaped.
C15_SlashEscaped ==
    (pc = "decoded" /\ OneEscape) => root.value = <<Value(<<input[2]>>, "slashEscaped")>>

\* What holds in the code: the run keeps the backslash and has the origin of
\* quoted blocks.
C15_SlashEscapedAsQuoted ==
    (pc = "decoded" /\ OneEscape) => root.value = <<Value(input, "singleQuoteEscaped")>>

\* C17: Flatten returns at least one sequence for every tree.
C17_FlattenNotEmpty == pc = "flattened" => Len(f) >= 1

\* What holds in the code: Flatten of the root returns no sequence exactly when
\* the root has no content of its own and no optional group below it yields one.
C17_FlattenEmptyOnlyWithoutContent ==
    (pc = "flattened" /\ Len(f) = 0) => root.value = <<>>

RECURSIVE OptionalNodes(_)
\* The number of optional nodes of a tree.
OptionalNodes(n) ==
    (IF IsOptional(n) THEN 1 ELSE 0)
    + (IF HasLeft(n) THEN OptionalNodes(Left(n)) ELSE 0)
    + (IF HasRight(n) THEN OptionalNodes(Right(n)) ELSE 0)

\* C18: Flatten returns at most 2^k sequences, duplicates counted, for a tree
\* with k optional nodes.
C18_FlattenAtMostTwoPowerK == pc = "flattened" => Len(f) <= 2 ^ OptionalNodes(root)

\* What holds in the code: an optional node with content contributes its content,
\* each sequence below it, and the empty sequence, so up to three per group.
C18_FlattenAtMostThreePowerK == pc = "flattened" => Len(f) <= 3 ^ OptionalNodes(root)

\* ------------------------------------------------------------------ escaped runs

EscapedRun(vv) == vv.typ \in {"singleQuoteEscaped", "slashEscaped"}

\* C12: ReplaceTimeTokenRaw copies every escaped run to the output as it is and
\* never scans it for tokens, so that a sequence of escaped runs yields their
\* texts one after another; ReplaceTimeToken of `\Y` and of `'Y'` yields Y.
C12_EscapedRunsVerbatim ==
    /\ [][(rpc = "loop" /\ rawIdx <= Len(raw) /\ EscapedRun(raw[rawIdx]))
            => /\ rpc' = "loop"
               /\ rawIdx' = rawIdx + 1
               /\ rawOutput' = rawOutput \o raw[rawIdx].value]_vars
    /\ []((rpc \in {"done", "panic"} /\ \A k \in 1..Len(raw) : EscapedRun(raw[k]))
            => /\ rpc = "done" /\ rawErr.kind = "nil"
               /\ rawOutput = Concat([k \in 1..Len(raw) |-> raw[k].value]))
    /\ []((/\ rpc \in {"done", "panic"}
           /\ raw \in {<<RawValue("normal", <<"\\", "Y">>)>>,
                       <<RawValue("normal", <<"'", "Y", "'">>)>>})
            => (rpc = "done" /\ rawErr.kind = "nil" /\ rawOutput = <<"Y">>))

\* A year token followed by an escaped Y: "2006Y".
C12_Witness ==
    /\ rpc = "done"
    /\ raw = <<RawValue("normal", Rep("Y", 4)), RawValue("slashEscaped", <<"Y">>)>>
    /\ rawErr.kind = "nil"
    /\ rawOutput = <<"2", "0", "0", "6", "Y">>

\* ------------------------------------------------------------------ fractional seconds

RECURSIVE RepeatLen(_, _)
\* The length of the run of the character at i that starts at i.
RepeatLen(s, i) ==
    IF i < Len(s) /\ s[i + 1] = s[i] THEN 1 + RepeatLen(s, i + 1) ELSE 1

\* Before p the scan meets only characters it steps over.
OnlyLiterals(s, p) ==
    \A k \in 1..(p - 1) : s[k] \notin SearchKeys /\ s[k] \notin {"\\", "'", "."}

FractionDigit(ch) == IF ch = "S" THEN "0" ELSE ch

\* C21: a `.` followed by k copies of S, 0 or 9 is one token of length k + 1,
\* translated to `.` and k zeros for S and to itself for 0 and 9; any other `.`
\* is copied as a literal.
C21_FractionalSecond ==
    /\ Scanning =>
        \A p \in 1..Len(rest) :
            (rest[p] = "." /\ OnlyLiterals(rest, p)) =>
                LET c == nextChunk(rest)
                IN  IF p < Len(rest) /\ rest[p + 1] \in {"S", "0", "9"}
                    THEN /\ ReturnsToken(c)
                         /\ c.prefix = SubSeq(rest, 1, p - 1)
                         /\ c.found = <<".">> \o Rep(rest[p + 1], RepeatLen(rest, p + 1))
                         /\ c.suffix = From(rest, p + 1 + RepeatLen(rest, p + 1))
                         /\ toGoFmt(c.found)
                                = <<".">> \o Rep(FractionDigit(rest[p + 1]), RepeatLen(rest, p + 1))
                    ELSE (~c.panic /\ c.err.kind = "nil")
                            => /\ Len(c.prefix) >= p
                               /\ SubSeq(c.prefix, 1, p) = SubSeq(rest, 1, p)
    /\ \A ch \in {"S", "0", "9"}, k \in 1..3 :
        (Ended /\ format = <<".">> \o Rep(ch, k))
            => (tpc = "done" /\ ferr.kind = "nil"
                /\ output = <<".">> \o Rep(FractionDigit(ch), k))
    /\ (Ended /\ format \in {<<".">>, <<".", "x">>, <<".", ".">>, <<"x", ".", "7">>})
            => (tpc = "done" /\ ferr.kind = "nil" /\ output = format)

\* "ss.SSS" yields "05.000".
C21_Witness ==
    /\ tpc = "done"
    /\ format = <<"s", "s", ".", "S", "S", "S">>
    /\ ferr.kind = "nil"
    /\ output = <<"0", "5", ".", "0", "0", "0">>

\* ------------------------------------------------------------------ the shape of the tree

RECURSIVE Unparse(_)
\* The template a tree stands for: the node's own content, then its left node
\* in brackets, then its right node.
Unparse(n) ==
    String(n.value)
    \o (IF HasLeft(n) THEN <<"[">> \o Unparse(Left(n)) \o <<"]">> ELSE <<>>)
    \o (IF HasRight(n) THEN Unparse(Right(n)) ELSE <<>>)

RECURSIVE WellFormed(_)
\* Every left node is optional, every right node is not and follows a left node.
WellFormed(n) ==
    /\ HasLeft(n) => (IsOptional(Left(n)) /\ WellFormed(Left(n)))
    /\ HasRight(n) => (HasLeft(n) /\ ~IsOptional(Right(n)) /\ WellFormed(Right(n)))

\* C22: in the tree decode builds, a node's own content is what precedes the
\* first optional group of its sibling list, that group is its left node and is
\* optional, what follows the group is its right node and is not optional, and
\* the root is not optional.
C22_TreeShape ==
    pc = "decoded" => (~IsOptional(root) /\ WellFormed(root) /\ Unparse(root) = input)

\* "a[b][a]": content a, the group b to the left, the second group below the
\* right node.
C22_Witness ==
    /\ pc = "decoded"
    /\ input = <<"a", "[", "b", "]", "[", "a", "]">>
    /\ String(root.value) = <<"a">>
    /\ String(Left(root).value) = <<"b">>
    /\ HasRight(root) /\ Right(root).value = <<>>
    /\ String(Left(Right(root)).value) = <<"a">>

\* ------------------------------------------------------------------ termination

\* ReplaceTimeToken runs on: a call that can take a step takes it.
SpecTranslateFair == SpecTranslate /\ WF_vars(TranslateNext)

\* C23: every nextChunk that returns no error leaves a remainder shorter than
\* its input, and the loop of ReplaceTimeToken ends with the whole input
\* consumed or with an error.
C23_EndsConsumedOrError ==
    /\ [][(tpc = "loop" /\ tpc' = "loop") => Len(rest') < Len(rest)]_vars
    /\ [][(tpc = "loop" /\ tpc' # "loop")
            => (tpc' = "done" /\ (rest = <<>> \/ ferr'.kind = "FormatError"))]_vars

\* What holds in the code: the remainder shrinks with every turn of the loop,
\* and the loop is left with the input consumed, with an error, or by a panic.
C23_RemainderShrinks ==
    /\ [][(tpc = "loop" /\ tpc' = "loop") => Len(rest') < Len(rest)]_vars
    /\ [][(tpc = "loop" /\ tpc' # "loop")
            => \/ tpc' = "done" /\ (rest = <<>> \/ ferr'.kind = "FormatError")
               \/ tpc' = "panic" /\ nextChunk(rest).panic]_vars

\* Under fairness every call leaves the loop.
C23_LoopEnds == <>(tpc # "loop")

\* ------------------------------------------------------------------ text outside the groups

IsSuffix(t, s) == Len(t) <= Len(s) /\ SubSeq(s, Len(s) - Len(t) + 1, Len(s)) = t

\* The template is one optional group followed by the non-empty plain run T, or
\* the non-empty plain run T followed by one optional group.
GroupThenText(T) ==
    /\ input # <<>> /\ input[1] = "["
    /\ CloseOf(input, 1) > 0
    /\ T = Sub(CloseOf(input, 1) + 1, Len(input))
    /\ T # <<>> /\ Plain(T)

TextThenGroup(T) ==
    /\ T # <<>> /\ Plain(T) /\ Len(T) < Len(input)
    /\ T = Sub(1, Len(T))
    /\ input[Len(T) + 1] = "["
    /\ CloseOf(input, Len(T) + 1) = Len(input)

\* The text outside the group is in every rendering and, with alone = TRUE, is
\* itself a rendering.
OutsideTextKept(alone) ==
    /\ \A n \in 1..Len(input) :
        GroupThenText(Sub(n, Len(input)))
            => /\ Renderings # {}
               /\ alone => Sub(n, Len(input)) \in Renderings
               /\ \A r \in Renderings : IsSuffix(Sub(n, Len(input)), r)
    /\ \A n \in 1..Len(input) :
        TextThenGroup(Sub(1, n))
            => /\ Renderings # {}
               /\ alone => Sub(1, n) \in Renderings
               /\ \A r \in Renderings : IsPrefix(Sub(1, n), r)

\* C24: for a template that parses and is one optional group, of any content,
\* before or after a non-empty plain run T, the result is not empty, T is among
\* the renderings and every rendering ends, or begins, with T.
C24_OutsideTextKept == Returned => OutsideTextKept(TRUE)

\* An optional group with nothing between its brackets.
HasEmptyGroup(s) ==
    \E i \in 1..(Len(s) - 1) : Classes(s)[i] = "open" /\ Classes(s)[i + 1] = "close"

\* What holds in the code: when no group of the template is empty the result is
\* not empty and every rendering holds the text (the text alone is missing when
\* the group begins with a nested group, which cannot be skipped).
C24_OutsideTextKeptWithoutEmptyGroup ==
    (Returned /\ ~HasEmptyGroup(input)) => OutsideTextKept(FALSE)

====
